---- MODULE Spec2Model ----
(***************************************************************************)
(* Model of the `summon` command of src/modules/legacy_cmds.py (Owner      *)
(* cog): a pool of bots shares one guild; a summon request is received by  *)
(* one bot, candidates are computed over the pool, a SelectBotVoice prompt *)
(* is shown when several bots are free, and a player is created on the     *)
(* resulting bot.  The model is of ONE guild (ctx.guild_id is fixed):      *)
(* players[b] stands for b.music.players.get(ctx.guild_id).                *)
(*                                                                         *)
(* Every `await` of the handler is a point where other requests, selection *)
(* events and environment changes interleave; the code between two awaits  *)
(* is one action.                                                          *)
(***************************************************************************)
EXTENDS Integers, Sequences, FiniteSets, TLC

\* ---- bounds ------------------------------------------------------------
NumBots  == 2      \* size of bot.pool.bots; 1..NumBots is registration order
NumUsers == 2      \* guild members that can issue commands / click the prompt
NumChans == 2      \* voice channels of the guild
NumReqs  == 2      \* summon invocations in a behaviour
SelTicks == 1      \* clock ticks from prompt creation to the view's deadline
MaxEnv   == 1      \* environment changes (voice moves, readiness flips)

Bots  == 1..NumBots
Users == 1..NumUsers
Chans == 1..NumChans
Reqs  == 1..NumReqs
NoChan == 0        \* member.voice is None / player.last_channel is None
NoBot  == 0
NoUser == 0
NoPlayer == [by |-> -1, last_channel |-> NoChan]

VARIABLES
  bot_ready,   \* [Bots -> BOOLEAN]           b.bot_ready
  inGuild,     \* [Bots -> BOOLEAN]           b.get_guild(ctx.guild_id) is not None
  voice,       \* [Users -> Chans \cup {0}]   member.voice (channel or None)
  botVoice,    \* [Bots -> Chans \cup {0}]    guild.me.voice of each bot
  timeout,     \* clock ticks a SelectBotVoice view waits (its timeout)
  players,     \* [Bots -> player record]     b.music.players (this guild)
  pc,          \* [Reqs -> position of the handler]
  rcv,         \* [Reqs -> Bots]              ctx.bot of the invocation
  author,      \* [Reqs -> Users]             ctx.author of the invocation
  reqChan,     \* [Reqs -> Chans]             ctx.author.voice.channel at invocation
  free_bots,   \* [Reqs -> Seq(Bots)]         local free_bots
  evaluated,   \* [Reqs -> BOOLEAN]           the loop of lines 627-644 ran
  vstatus,     \* [Reqs -> "None"|"True"|"False"]  v.status
  vdone,       \* [Reqs -> BOOLEAN]           the view stopped (v.wait() returns)
  vbot,        \* [Reqs -> Bots \cup {0}]     v.bot
  vinter,      \* [Reqs -> Users \cup {0}]    v.inter.author
  vleft,       \* [Reqs -> 0..SelTicks]       ticks left to the view's deadline
  ignored,     \* [Reqs -> BOOLEAN]           a foreign click was discarded
  lost,        \* [Reqs -> BOOLEAN]           the requester left voice while the prompt was pending
  bot,         \* [Reqs -> Bots]              local `bot`
  ctxAuthor,   \* [Reqs -> Users]             local `ctx`.author (ctx = v.inter)
  outcome,     \* [Reqs -> outcome]           how the invocation ended
  raised,      \* [Reqs -> BOOLEAN]           it ended with an exception (raise), not a return
  env          \* environment changes so far

vars == <<bot_ready, inGuild, voice, botVoice, timeout, players, pc, rcv, author,
          reqChan, free_bots, evaluated, vstatus, vdone, vbot, vinter, vleft,
          ignored, lost, bot, ctxAuthor, outcome, raised, env>>

poolVars == <<bot_ready, inGuild, voice, botVoice, timeout, players, env>>
selVars  == <<vstatus, vdone, vbot, vinter, vleft, ignored, lost>>
reqVars  == <<rcv, author, reqChan, free_bots, evaluated, bot, ctxAuthor>>

\* ---- helpers -------------------------------------------------------------
Range(s) == {s[i] : i \in 1..Len(s)}

\* `ctx.author.id not in p.last_channel.voice_states` (line 641), negated:
\* the member is connected to the channel the player occupies.  A player
\* whose last_channel is not set yet contains nobody.
InPlayerChannel(u, b) ==
  /\ players[b].last_channel # NoChan
  /\ voice[u] = players[b].last_channel

\* The loop body without the test of lines 631-632.
IsFree_NoReadyCheck(b, u) ==
  /\ inGuild[b]
  /\ ~(players[b] # NoPlayer /\ ~InPlayerChannel(u, b))

\* The loop body that skips every bot that holds a player (`if p: continue`).
IsFree_SkipHolders(b, u) ==
  /\ bot_ready[b]
  /\ inGuild[b]
  /\ players[b] = NoPlayer

\* Body of the loop of lines 629-644 for one bot: TRUE when b is appended.
IsFree(b, u) ==
  /\ bot_ready[b]
  /\ inGuild[b]
  /\ ~(players[b] # NoPlayer /\ ~InPlayerChannel(u, b))

\* A loop that puts each free bot in front of the list (free_bots.insert(0, b)).
RECURSIVE FreeBotsFrom_Reversed(_, _)
FreeBotsFrom_Reversed(b, u) ==
  IF b > NumBots THEN <<>>
  ELSE FreeBotsFrom_Reversed(b + 1, u) \o (IF IsFree(b, u) THEN <<b>> ELSE <<>>)

\* Lines 627-644: free_bots, in the order of self.bot.pool.bots.
RECURSIVE FreeBotsFrom(_, _)
FreeBotsFrom(b, u) ==
  IF b > NumBots THEN <<>>
  ELSE (IF IsFree(b, u) THEN <<b>> ELSE <<>>) \o FreeBotsFrom(b + 1, u)

FreeBots(u) == FreeBotsFrom(1, u)

\* A handler that evaluates the candidates whatever channel the bot is in.
BotNotInAuthorChannel_Always(b, u) == TRUE

\* Line 625: `bot.user.id not in ctx.author.voice.channel.voice_states`.
BotNotInAuthorChannel(b, u) == botVoice[b] # voice[u]

\* The handler returns: the request ends with outcome o.
End(r, o) ==
  /\ pc' = [pc EXCEPT ![r] = "done"]
  /\ outcome' = [outcome EXCEPT ![r] = o]
  /\ raised' = [raised EXCEPT ![r] = FALSE]

\* An exception leaves the handler (a `raise`, a failed command check, or an
\* attribute read on None): the request ends with outcome o.
Raise(r, o) ==
  /\ pc' = [pc EXCEPT ![r] = "done"]
  /\ outcome' = [outcome EXCEPT ![r] = o]
  /\ raised' = [raised EXCEPT ![r] = TRUE]

Goto(r, p) ==
  /\ pc' = [pc EXCEPT ![r] = p]
  /\ UNCHANGED <<outcome, raised>>

\* Lines 682-687: can_connect(...) raises or get_best_node() returns None
\* (canStart is FALSE, the handler raises GenericError), or the handler
\* reaches `await create_player(...)` with the given bot and ctx.
Proceed(r, b, u, canStart) ==
  /\ bot' = [bot EXCEPT ![r] = b]
  /\ ctxAuthor' = [ctxAuthor EXCEPT ![r] = u]
  /\ IF ~canStart THEN Raise(r, "CannotStart")
     ELSE Goto(r, "create")

\* Line 610, `@commands.cooldown(1, 15, commands.BucketType.guild)`: the
\* guild's bucket on bot b holds a token of an earlier invocation that passed
\* the checks on b.  Whether its 15 seconds have passed is not modelled: an
\* invocation may be on cooldown only when UsedBucket holds.
UsedBucket(b) ==
  \E q \in Reqs : /\ pc[q] # "idle"
                  /\ rcv[q] = b
                  /\ outcome[q] \notin {"NoVoice", "OnCooldown"}

\* A registry that never answers AlreadyClaimed.
registerClaim_NoCheck(b) == TRUE

\* registerClaim of the registry (create_player of the Music cog): the claim
\* succeeds only when the instance holds no session in the group.
registerClaim(b) == players[b] = NoPlayer

\* ---- initial states -------------------------------------------------------
\* At most one bot holds a player at the start; a bot that holds one is in
\* the guild and connected to the player's channel; a bot without a player
\* may sit in a voice channel of the guild.  Nothing distinguishes one voice
\* channel from another or one member from another, so of the initial states
\* that differ by a renaming of channels only those with member 1 in channel
\* 1 (or in none) are kept, and the first request is member 1's.  A bot that
\* is not in the guild is never looked at beyond line 636: it starts ready.
InitPlayers ==
  {[b \in Bots |-> NoPlayer]} \cup
  {[b \in Bots |-> IF b = h THEN [by |-> 0, last_channel |-> c] ELSE NoPlayer] :
      h \in Bots, c \in Chans}

InitTimeout(t) ==
  /\ timeout = t
  /\ bot_ready \in [Bots -> BOOLEAN]
  /\ inGuild \in [Bots -> BOOLEAN]
  /\ \A b \in Bots : ~inGuild[b] => bot_ready[b]
  /\ voice \in [Users -> Chans \cup {NoChan}]
  /\ voice[1] \in {NoChan, 1}
  /\ players \in InitPlayers
  /\ \A b \in Bots : players[b] # NoPlayer => inGuild[b]
  /\ botVoice \in [Bots -> Chans \cup {NoChan}]
  /\ \A b \in Bots : players[b] # NoPlayer => botVoice[b] = players[b].last_channel
  /\ \A b \in Bots : botVoice[b] # NoChan => inGuild[b]
  /\ pc = [r \in Reqs |-> "idle"]
  /\ rcv = [r \in Reqs |-> 1]
  /\ author = [r \in Reqs |-> 1]
  /\ reqChan = [r \in Reqs |-> NoChan]
  /\ free_bots = [r \in Reqs |-> <<>>]
  /\ evaluated = [r \in Reqs |-> FALSE]
  /\ vstatus = [r \in Reqs |-> "None"]
  /\ vdone = [r \in Reqs |-> FALSE]
  /\ vbot = [r \in Reqs |-> NoBot]
  /\ vinter = [r \in Reqs |-> NoUser]
  /\ vleft = [r \in Reqs |-> 0]
  /\ ignored = [r \in Reqs |-> FALSE]
  /\ lost = [r \in Reqs |-> FALSE]
  /\ bot = [r \in Reqs |-> 1]
  /\ ctxAuthor = [r \in Reqs |-> 1]
  /\ outcome = [r \in Reqs |-> "none"]
  /\ raised = [r \in Reqs |-> FALSE]
  /\ env = 0

\* The views time out after SelTicks clock ticks.
Init == InitTimeout(SelTicks)

\* ---- the summon handler ---------------------------------------------------
\* A handler that goes on with the single candidate of the list
\* (bot = free_bots[0]) when the loop found exactly one.
Invoke_DirectOnCandidate(r, b, u, onCooldown, canStart) ==
  /\ pc[r] = "idle"
  /\ r > 1 => pc[r - 1] # "idle"
  /\ r = 1 => u = 1
  /\ inGuild[b]
  /\ onCooldown => UsedBucket(b)
  /\ rcv' = [rcv EXCEPT ![r] = b]
  /\ author' = [author EXCEPT ![r] = u]
  /\ reqChan' = [reqChan EXCEPT ![r] = voice[u]]
  /\ UNCHANGED <<poolVars, vstatus, vdone, vbot, vinter, ignored, lost>>
  /\ IF voice[u] = NoChan THEN
       /\ Raise(r, "NoVoice")
       /\ UNCHANGED <<free_bots, evaluated, vleft, bot, ctxAuthor>>
     ELSE IF onCooldown THEN
       /\ Raise(r, "OnCooldown")
       /\ UNCHANGED <<free_bots, evaluated, vleft, bot, ctxAuthor>>
     ELSE IF players[b] # NoPlayer THEN
       /\ Raise(r, "AlreadyInitiated")
       /\ UNCHANGED <<free_bots, evaluated, vleft, bot, ctxAuthor>>
     ELSE IF BotNotInAuthorChannel(b, u) THEN
       /\ free_bots' = [free_bots EXCEPT ![r] = FreeBots(u)]
       /\ evaluated' = [evaluated EXCEPT ![r] = TRUE]
       /\ IF Len(FreeBots(u)) > 1 THEN
            /\ vleft' = [vleft EXCEPT ![r] = timeout]
            /\ bot' = [bot EXCEPT ![r] = b]
            /\ ctxAuthor' = [ctxAuthor EXCEPT ![r] = u]
            /\ Goto(r, "wait")
          ELSE IF Len(FreeBots(u)) = 1 THEN
            /\ Proceed(r, FreeBots(u)[1], u, canStart)
            /\ UNCHANGED vleft
          ELSE
            /\ Proceed(r, b, u, canStart)
            /\ UNCHANGED vleft
     ELSE
       /\ Proceed(r, b, u, canStart)
       /\ UNCHANGED <<free_bots, evaluated, vleft>>

\* The handler without the guard of lines 614-618.
Invoke_NoGuard(r, b, u, onCooldown, canStart) ==
  /\ pc[r] = "idle"
  /\ r > 1 => pc[r - 1] # "idle"
  /\ r = 1 => u = 1
  /\ inGuild[b]
  /\ onCooldown => UsedBucket(b)
  /\ rcv' = [rcv EXCEPT ![r] = b]
  /\ author' = [author EXCEPT ![r] = u]
  /\ reqChan' = [reqChan EXCEPT ![r] = voice[u]]
  /\ UNCHANGED <<poolVars, vstatus, vdone, vbot, vinter, ignored, lost>>
  /\ IF voice[u] = NoChan THEN
       /\ Raise(r, "NoVoice")
       /\ UNCHANGED <<free_bots, evaluated, vleft, bot, ctxAuthor>>
     ELSE IF onCooldown THEN
       /\ Raise(r, "OnCooldown")
       /\ UNCHANGED <<free_bots, evaluated, vleft, bot, ctxAuthor>>
     ELSE IF BotNotInAuthorChannel(b, u) THEN
       /\ free_bots' = [free_bots EXCEPT ![r] = FreeBots(u)]
       /\ evaluated' = [evaluated EXCEPT ![r] = TRUE]
       /\ IF Len(FreeBots(u)) > 1 THEN
            /\ vleft' = [vleft EXCEPT ![r] = timeout]
            /\ bot' = [bot EXCEPT ![r] = b]
            /\ ctxAuthor' = [ctxAuthor EXCEPT ![r] = u]
            /\ Goto(r, "wait")
          ELSE
            /\ Proceed(r, b, u, canStart)
            /\ UNCHANGED vleft
     ELSE
       /\ Proceed(r, b, u, canStart)
       /\ UNCHANGED <<free_bots, evaluated, vleft>>

\* Lines 609-658: the command checks, the cooldown, the guard on the
\* receiving bot's own player, the candidate loop and the creation of the
\* prompt; runs without suspension up to `await ctx.send` / `await v.wait()`
\* or, without a prompt, up to `await create_player`.
Invoke(r, b, u, onCooldown, canStart) ==
  /\ pc[r] = "idle"
  /\ r > 1 => pc[r - 1] # "idle"
  /\ r = 1 => u = 1
  /\ inGuild[b]
  /\ onCooldown => UsedBucket(b)
  /\ rcv' = [rcv EXCEPT ![r] = b]
  /\ author' = [author EXCEPT ![r] = u]
  /\ reqChan' = [reqChan EXCEPT ![r] = voice[u]]
  /\ UNCHANGED <<poolVars, vstatus, vdone, vbot, vinter, ignored, lost>>
  /\ IF voice[u] = NoChan THEN                       \* @check_voice()
       /\ Raise(r, "NoVoice")
       /\ UNCHANGED <<free_bots, evaluated, vleft, bot, ctxAuthor>>
     ELSE IF onCooldown THEN                         \* @commands.cooldown
       /\ Raise(r, "OnCooldown")
       /\ UNCHANGED <<free_bots, evaluated, vleft, bot, ctxAuthor>>
     ELSE IF players[b] # NoPlayer THEN              \* lines 614-618
       /\ Raise(r, "AlreadyInitiated")
       /\ UNCHANGED <<free_bots, evaluated, vleft, bot, ctxAuthor>>
     ELSE IF BotNotInAuthorChannel(b, u) THEN        \* line 625
       /\ free_bots' = [free_bots EXCEPT ![r] = FreeBots(u)]
       /\ evaluated' = [evaluated EXCEPT ![r] = TRUE]
       /\ IF Len(FreeBots(u)) > 1 THEN               \* lines 646-658
            /\ vleft' = [vleft EXCEPT ![r] = timeout]
            /\ bot' = [bot EXCEPT ![r] = b]              \* line 620
            /\ ctxAuthor' = [ctxAuthor EXCEPT ![r] = u]
            /\ Goto(r, "wait")
          ELSE
            /\ Proceed(r, b, u, canStart)
            /\ UNCHANGED vleft
     ELSE
       /\ Proceed(r, b, u, canStart)
       /\ UNCHANGED <<free_bots, evaluated, vleft>>

\* ---- SelectBotVoice (the prompt's view) -----------------------------------
\* A view that lets a click resolve it again after it stopped.
Choice_LateHonoured(r, actor, inst) ==
  /\ pc[r] = "wait"
  /\ inst \in Range(free_bots[r])
  /\ UNCHANGED <<poolVars, reqVars, pc, outcome, raised, vleft, lost>>
  /\ IF actor # author[r] THEN
       /\ ignored' = [ignored EXCEPT ![r] = TRUE]
       /\ UNCHANGED <<vstatus, vdone, vbot, vinter>>
     ELSE
       /\ vstatus' = [vstatus EXCEPT ![r] = "True"]
       /\ vbot' = [vbot EXCEPT ![r] = inst]
       /\ vinter' = [vinter EXCEPT ![r] = actor]
       /\ vdone' = [vdone EXCEPT ![r] = TRUE]
       /\ UNCHANGED ignored

\* A view without the check of who clicked.
Choice_AnyActor(r, actor, inst) ==
  /\ pc[r] = "wait"
  /\ inst \in Range(free_bots[r])
  /\ UNCHANGED <<poolVars, reqVars, pc, outcome, raised, vleft, lost>>
  /\ IF vdone[r] THEN UNCHANGED <<vstatus, vdone, vbot, vinter, ignored>>
     ELSE
       /\ vstatus' = [vstatus EXCEPT ![r] = "True"]
       /\ vbot' = [vbot EXCEPT ![r] = inst]
       /\ vinter' = [vinter EXCEPT ![r] = actor]
       /\ vdone' = [vdone EXCEPT ![r] = TRUE]
       /\ ignored' = [ignored EXCEPT ![r] = ignored[r] \/ actor # author[r]]

\* A view whose timeout starts again at every click it discards.
Choice_RenewsDeadline(r, actor, inst) ==
  /\ pc[r] = "wait"
  /\ inst \in Range(free_bots[r])
  /\ UNCHANGED <<poolVars, reqVars, pc, outcome, raised, lost>>
  /\ IF vdone[r] THEN UNCHANGED <<vstatus, vdone, vbot, vinter, ignored, vleft>>
     ELSE IF actor # author[r] THEN
       /\ ignored' = [ignored EXCEPT ![r] = TRUE]
       /\ vleft' = [vleft EXCEPT ![r] = timeout]
       /\ UNCHANGED <<vstatus, vdone, vbot, vinter>>
     ELSE
       /\ vstatus' = [vstatus EXCEPT ![r] = "True"]
       /\ vbot' = [vbot EXCEPT ![r] = inst]
       /\ vinter' = [vinter EXCEPT ![r] = actor]
       /\ vdone' = [vdone EXCEPT ![r] = TRUE]
       /\ UNCHANGED <<ignored, vleft>>

\* A click on one of the offered bots.  Only the requester's click on a
\* pending view resolves it; any other click changes nothing.
Choice(r, actor, inst) ==
  /\ pc[r] = "wait"
  /\ inst \in Range(free_bots[r])
  /\ UNCHANGED <<poolVars, reqVars, pc, outcome, raised, vleft, lost>>
  /\ IF vdone[r] THEN UNCHANGED <<vstatus, vdone, vbot, vinter, ignored>>
     ELSE IF actor # author[r] THEN
       /\ ignored' = [ignored EXCEPT ![r] = TRUE]
       /\ UNCHANGED <<vstatus, vdone, vbot, vinter>>
     ELSE
       /\ vstatus' = [vstatus EXCEPT ![r] = "True"]
       /\ vbot' = [vbot EXCEPT ![r] = inst]
       /\ vinter' = [vinter EXCEPT ![r] = actor]
       /\ vdone' = [vdone EXCEPT ![r] = TRUE]
       /\ UNCHANGED ignored

\* A click on the cancel button.
Cancel(r, actor) ==
  /\ pc[r] = "wait"
  /\ UNCHANGED <<poolVars, reqVars, pc, outcome, raised, vleft, vbot, lost>>
  /\ IF vdone[r] THEN UNCHANGED <<vstatus, vdone, vinter, ignored>>
     ELSE IF actor # author[r] THEN
       /\ ignored' = [ignored EXCEPT ![r] = TRUE]
       /\ UNCHANGED <<vstatus, vdone, vinter>>
     ELSE
       /\ vstatus' = [vstatus EXCEPT ![r] = "False"]
       /\ vinter' = [vinter EXCEPT ![r] = actor]
       /\ vdone' = [vdone EXCEPT ![r] = TRUE]
       /\ UNCHANGED ignored

\* The view's clock: the deadline is `timeout` ticks after creation; when it
\* is reached the view stops with status still None.
Tick(r) ==
  /\ pc[r] = "wait"
  /\ ~vdone[r]
  /\ vleft[r] > 0
  /\ vleft' = [vleft EXCEPT ![r] = vleft[r] - 1]
  /\ vdone' = [vdone EXCEPT ![r] = (vleft[r] = 1)]
  /\ UNCHANGED <<poolVars, reqVars, pc, outcome, raised, vstatus, vbot, vinter, ignored, lost>>

\* The handler without the `return` of line 662: after "Time is up" it goes
\* on with the receiving bot.
AfterWait_TimeoutProceeds(r, canStart) ==
  /\ pc[r] = "wait"
  /\ vdone[r]
  /\ UNCHANGED <<poolVars, selVars, rcv, author, reqChan, free_bots, evaluated>>
  /\ IF vstatus[r] = "None" THEN
       Proceed(r, bot[r], ctxAuthor[r], canStart)
     ELSE IF vstatus[r] = "False" THEN
       End(r, "Cancelled") /\ UNCHANGED <<bot, ctxAuthor>>
     ELSE IF voice[vinter[r]] = NoChan THEN
       End(r, "Invalid") /\ UNCHANGED <<bot, ctxAuthor>>
     ELSE
       Proceed(r, vbot[r], vinter[r], canStart)

\* The handler without the check of lines 669-672.
AfterWait_NoVoiceCheck(r, canStart) ==
  /\ pc[r] = "wait"
  /\ vdone[r]
  /\ UNCHANGED <<poolVars, selVars, rcv, author, reqChan, free_bots, evaluated>>
  /\ IF vstatus[r] = "None" THEN
       End(r, "TimedOut") /\ UNCHANGED <<bot, ctxAuthor>>
     ELSE IF vstatus[r] = "False" THEN
       End(r, "Cancelled") /\ UNCHANGED <<bot, ctxAuthor>>
     ELSE
       Proceed(r, vbot[r], vinter[r], canStart)

\* The handler with status None read as a cancel.
AfterWait_TimeoutAsCancel(r, canStart) ==
  /\ pc[r] = "wait"
  /\ vdone[r]
  /\ UNCHANGED <<poolVars, selVars, rcv, author, reqChan, free_bots, evaluated>>
  /\ IF vstatus[r] = "None" \/ vstatus[r] = "False" THEN
       End(r, "Cancelled") /\ UNCHANGED <<bot, ctxAuthor>>
     ELSE IF voice[vinter[r]] = NoChan THEN
       End(r, "Invalid") /\ UNCHANGED <<bot, ctxAuthor>>
     ELSE
       Proceed(r, vbot[r], vinter[r], canStart)

\* The handler with the `raise NoVoice()` of line 675 in the place of the
\* message edit and return of lines 669-672.
AfterWait_RaiseNoVoice(r, canStart) ==
  /\ pc[r] = "wait"
  /\ vdone[r]
  /\ UNCHANGED <<poolVars, selVars, rcv, author, reqChan, free_bots, evaluated>>
  /\ IF vstatus[r] = "None" THEN
       End(r, "TimedOut") /\ UNCHANGED <<bot, ctxAuthor>>
     ELSE IF vstatus[r] = "False" THEN
       End(r, "Cancelled") /\ UNCHANGED <<bot, ctxAuthor>>
     ELSE IF voice[vinter[r]] = NoChan THEN
       Raise(r, "NoVoice") /\ UNCHANGED <<bot, ctxAuthor>>
     ELSE
       Proceed(r, vbot[r], vinter[r], canStart)

\* Lines 658-687: `await v.wait()` returned.
AfterWait(r, canStart) ==
  /\ pc[r] = "wait"
  /\ vdone[r]
  /\ UNCHANGED <<poolVars, selVars, rcv, author, reqChan, free_bots, evaluated>>
  /\ IF vstatus[r] = "None" THEN                     \* lines 660-662
       End(r, "TimedOut") /\ UNCHANGED <<bot, ctxAuthor>>
     ELSE IF vstatus[r] = "False" THEN               \* lines 664-667
       End(r, "Cancelled") /\ UNCHANGED <<bot, ctxAuthor>>
     ELSE IF voice[vinter[r]] = NoChan THEN          \* lines 669-672
       End(r, "Invalid") /\ UNCHANGED <<bot, ctxAuthor>>
     ELSE                                            \* lines 677-687
       Proceed(r, vbot[r], vinter[r], canStart)

\* A handler that goes on with the player the bot already holds when the
\* claim is refused.
CreatePlayer_UseExisting(r) ==
  /\ pc[r] = "create"
  /\ UNCHANGED <<bot_ready, inGuild, timeout, voice, botVoice, env, selVars, reqVars>>
  /\ IF registerClaim(bot[r]) THEN
       /\ players' = [players EXCEPT ![bot[r]] = [by |-> r, last_channel |-> NoChan]]
       /\ Goto(r, "connect")
     ELSE
       /\ Goto(r, "connect")
       /\ UNCHANGED players

\* Lines 689-691: `await bot.get_cog("Music").create_player(...)`.
CreatePlayer(r) ==
  /\ pc[r] = "create"
  /\ UNCHANGED <<bot_ready, inGuild, timeout, voice, botVoice, env, selVars, reqVars>>
  /\ IF registerClaim(bot[r]) THEN
       /\ players' = [players EXCEPT ![bot[r]] = [by |-> r, last_channel |-> NoChan]]
       /\ Goto(r, "connect")
     ELSE
       /\ End(r, "AlreadyClaimed")
       /\ UNCHANGED players

\* Line 693: `await player.connect(ctx.author.voice.channel.id)`; the
\* member's voice state is read when the line runs.
Connect(r) ==
  /\ pc[r] = "connect"
  /\ UNCHANGED <<bot_ready, inGuild, timeout, voice, env, selVars, reqVars>>
  /\ IF voice[ctxAuthor[r]] = NoChan THEN
       /\ Raise(r, "Error")
       /\ UNCHANGED <<players, botVoice>>
     ELSE
       /\ players' = [players EXCEPT ![bot[r]].last_channel = voice[ctxAuthor[r]]]
       /\ botVoice' = [botVoice EXCEPT ![bot[r]] = voice[ctxAuthor[r]]]
       /\ Goto(r, "waitvoice")

\* Lines 703-714: `while not ctx.guild.me.voice: await asyncio.sleep(1)`;
\* ctx.guild.me is the member of the bot that received the command or the
\* click, which is the receiving bot.
WaitVoice(r) ==
  /\ pc[r] = "waitvoice"
  /\ botVoice[rcv[r]] # NoChan
  /\ UNCHANGED <<poolVars, selVars, reqVars>>
  /\ IF voice[ctxAuthor[r]] = NoChan THEN Raise(r, "Error") ELSE End(r, "Started")

\* ---- environment ----------------------------------------------------------
\* A member joins, leaves or changes voice channel.
Move(u, c) ==
  /\ env < MaxEnv
  /\ voice[u] # c
  /\ voice' = [voice EXCEPT ![u] = c]
  /\ lost' = [r \in Reqs |->
                lost[r] \/ (c = NoChan /\ author[r] = u /\ pc[r] = "wait" /\ ~vdone[r])]
  /\ env' = env + 1
  /\ UNCHANGED <<bot_ready, inGuild, timeout, botVoice, players, pc, outcome, raised, reqVars>>
  /\ UNCHANGED <<vstatus, vdone, vbot, vinter, vleft, ignored>>

\* A bot of the pool becomes ready or stops being ready.
FlipReady(b) ==
  /\ env < MaxEnv
  /\ inGuild[b]
  /\ bot_ready' = [bot_ready EXCEPT ![b] = ~bot_ready[b]]
  /\ env' = env + 1
  /\ UNCHANGED <<inGuild, timeout, voice, botVoice, players, pc, outcome, raised, selVars, reqVars>>

\* Steps of the handlers, of the prompts and of the members.
HandlerNext ==
  \/ \E r \in Reqs, b \in Bots, u \in Users,
        onCooldown \in BOOLEAN, canStart \in BOOLEAN :
        Invoke(r, b, u, onCooldown, canStart)
  \/ \E r \in Reqs, actor \in Users, inst \in Bots : Choice(r, actor, inst)
  \/ \E r \in Reqs, actor \in Users : Cancel(r, actor)
  \/ \E r \in Reqs : Tick(r)
  \/ \E r \in Reqs, canStart \in BOOLEAN : AfterWait(r, canStart)
  \/ \E r \in Reqs : CreatePlayer(r)
  \/ \E r \in Reqs : Connect(r)
  \/ \E r \in Reqs : WaitVoice(r)
  \/ \E u \in Users, c \in Chans \cup {NoChan} : Move(u, c)

Next ==
  \/ HandlerNext
  \/ \E b \in Bots : FlipReady(b)

Spec == Init /\ [][Next]_vars

\* The pool when every bot is ready and stays ready: what the handler does
\* there does not depend on how it treats a receiving bot that is not ready.
ReadyInit == Init /\ \A b \in Bots : bot_ready[b]

ReadySpec == ReadyInit /\ [][HandlerNext]_vars

\* The scheduling the event loop guarantees: the timer of a view runs, and a
\* handler whose `await v.wait()` can return is resumed.  Checked on the pools
\* whose bots are all ready, all in the guild, and at the start hold no player
\* and sit in no voice channel.
LiveInit ==
  /\ ReadyInit
  /\ \A b \in Bots : inGuild[b] /\ players[b] = NoPlayer /\ botVoice[b] = NoChan

LiveSpec ==
  /\ LiveInit
  /\ [][HandlerNext]_vars
  /\ \A r \in Reqs : WF_vars(Tick(r))
  /\ \A r \in Reqs : WF_vars(\E canStart \in BOOLEAN : AfterWait(r, canStart))

\* The same pools under the scheduling of the whole handler: the event loop
\* also resumes a handler whose create_player or connect call can return, and
\* runs the polling loop of lines 703-704 whenever its condition lets it end.
FairSpec ==
  /\ LiveSpec
  /\ \A r \in Reqs : WF_vars(CreatePlayer(r))
  /\ \A r \in Reqs : WF_vars(Connect(r))
  /\ \A r \in Reqs : WF_vars(WaitVoice(r))

\* Pools of ready bots that hold no player and sit in no voice channel, with
\* views whose timeout is one tick longer: clicks can arrive after a part of
\* the timeout has passed.
TimerInit ==
  /\ InitTimeout(SelTicks + 1)
  /\ \A b \in Bots : /\ bot_ready[b] /\ inGuild[b]
                     /\ players[b] = NoPlayer /\ botVoice[b] = NoChan

TimerSpec == TimerInit /\ [][HandlerNext]_vars

TypeOK ==
  /\ bot_ready \in [Bots -> BOOLEAN]
  /\ voice \in [Users -> Chans \cup {NoChan}]
  /\ botVoice \in [Bots -> Chans \cup {NoChan}]
  /\ pc \in [Reqs -> {"idle", "wait", "create", "connect", "waitvoice", "done"}]
  /\ vstatus \in [Reqs -> {"None", "True", "False"}]
  /\ timeout \in 1..(SelTicks + 1)
  /\ vleft \in [Reqs -> 0..timeout]
  /\ lost \in [Reqs -> BOOLEAN]
  /\ raised \in [Reqs -> BOOLEAN]
  /\ env \in 0..MaxEnv

\* ---- derived notions ------------------------------------------------------
Holders == {b \in Bots : players[b] # NoPlayer}

\* Request r created the player that bot b holds.
CreatedOn(r, b) == players[b].by = r
Created(r) == \E b \in Bots : CreatedOn(r, b)

C3_ZeroCandidatesRejected ==
  \A r \in Reqs : (evaluated[r] /\ free_bots[r] = <<>>) => ~Created(r)

\* ---- C4 -------------------------------------------------------------------
\* C4: a request whose candidate loop found exactly one bot opens no prompt
\* and creates the player on that bot.
C4_SingleCandidateGetsSession ==
  \A r \in Reqs :
     (evaluated[r] /\ Len(free_bots[r]) = 1) =>
        /\ pc[r] # "wait"
        /\ \A b \in Bots : CreatedOn(r, b) => b = free_bots[r][1]

\* ---- the prompt as a state machine ---------------------------------------
HasPrompt(r) == Len(free_bots[r]) > 1

SelState(r) ==
  IF ~HasPrompt(r) THEN "NoSelection"
  ELSE IF ~vdone[r] THEN "Pending"
  ELSE IF vstatus[r] = "None" THEN "TimedOut"
  ELSE IF vstatus[r] = "False" THEN "Cancelled"
  ELSE "Chosen"

\* ---- C5 -------------------------------------------------------------------
\* C5: a request with several candidates holds no player while its prompt is
\* pending or after it ended TimedOut, Cancelled or Invalid, and every change
\* of the players is the creation or connection of a player by a request that
\* had no prompt or whose prompt was resolved by a choice.
C5_OnlyDirectOrChosenCreates ==
  /\ [](\A r \in Reqs :
          (pc[r] = "wait" \/ outcome[r] \in {"TimedOut", "Cancelled", "Invalid"})
             => ~Created(r))
  /\ [][\A b \in Bots :
          players'[b] # players[b] =>
             \E q \in Reqs : /\ players'[b].by = q
                             /\ pc[q] \in {"create", "connect"}
                             /\ HasPrompt(q) => vstatus[q] = "True"]_vars

\* One prompt ended Invalid and another request has created a player: the
\* request of the prompt holds none.
C5_Witness ==
  \E r, q \in Reqs : /\ HasPrompt(r)
                     /\ outcome[r] = "Invalid"
                     /\ ~Created(r)
                     /\ Created(q)

\* ---- C6 -------------------------------------------------------------------
\* C6: once a prompt has left Pending its state, its chosen bot and the
\* member it recorded never change, and the outcome of a request, once set,
\* never changes.
C6_ResolvedOnce ==
  [][\A r \in Reqs :
        /\ SelState(r) \notin {"NoSelection", "Pending"} =>
              /\ SelState(r)' = SelState(r)
              /\ vbot'[r] = vbot[r]
              /\ vinter'[r] = vinter[r]
        /\ outcome[r] # "none" => outcome'[r] = outcome[r]]_vars

\* A prompt that timed out and whose handler has not been resumed yet: clicks
\* can still arrive.
C6_Witness ==
  \E r \in Reqs : SelState(r) = "TimedOut" /\ pc[r] = "wait" /\ ignored[r]

\* ---- C7 -------------------------------------------------------------------
\* C7: the member a resolved prompt records is the requester, a player is
\* only ever created for the requester, and the step that discards a click of
\* another member leaves the prompt, the players and the handlers as they are.
C7_ForeignChoiceDiscarded ==
  /\ [](\A r \in Reqs :
          /\ vinter[r] \in {NoUser, author[r]}
          /\ (pc[r] \in {"create", "connect", "waitvoice"} \/ Created(r))
                => ctxAuthor[r] = author[r])
  /\ [][\A r \in Reqs :
          (~ignored[r] /\ ignored'[r]) =>
             /\ SelState(r)' = "Pending"
             /\ vbot'[r] = NoBot
             /\ players' = players
             /\ pc' = pc]_vars

\* A click of another member was discarded and the prompt is still pending.
C7_Witness ==
  \E r \in Reqs : ignored[r] /\ SelState(r) = "Pending" /\ vbot[r] = NoBot

\* ---- C8 -------------------------------------------------------------------
\* C8: a pending prompt eventually stops; a prompt that stopped at its
\* deadline with no choice or cancel leads to the outcome TimedOut; the
\* handler resumed from such a prompt ends TimedOut at once and creates no
\* player; and a prompt that stopped at its deadline stays TimedOut whatever
\* is clicked afterwards.
C8_TimesOut ==
  /\ \A r \in Reqs : (SelState(r) = "Pending") ~> (SelState(r) # "Pending")
  /\ \A r \in Reqs : (SelState(r) = "TimedOut") ~> (outcome[r] = "TimedOut")
  /\ [](\A r \in Reqs : outcome[r] = "TimedOut" => (~Created(r) /\ SelState(r) = "TimedOut"))
  /\ [][\A r \in Reqs :
          SelState(r) = "TimedOut" =>
             /\ SelState(r)' = "TimedOut"
             /\ pc'[r] # pc[r] => (pc'[r] = "done" /\ outcome'[r] = "TimedOut")
             /\ ~Created(r)']_vars

\* A request ended TimedOut.
C8_Witness ==
  \E r \in Reqs : outcome[r] = "TimedOut" /\ vleft[r] = 0 /\ ~Created(r)

\* ---- C9 -------------------------------------------------------------------
\* C9 (as stated): a request whose requester left the voice channels while
\* the prompt was pending ends Invalid, whatever resolved the prompt, and
\* creates no player.
C9_PresenceLostIsInvalid ==
  \A r \in Reqs :
     (lost[r] /\ pc[r] # "wait") => (outcome[r] = "Invalid" /\ ~Created(r))

\* C9 (amended): when the handler is resumed from the prompt while the
\* requester is in no voice channel, the request ends without a player:
\* Invalid after a choice, Cancelled after a cancel, TimedOut after the
\* deadline.
C9_PresenceLostNoSession ==
  [][\A r \in Reqs :
        (pc[r] = "wait" /\ voice[author[r]] = NoChan /\ pc'[r] # "wait") =>
           /\ pc'[r] = "done"
           /\ outcome'[r] = (IF SelState(r) = "Chosen" THEN "Invalid" ELSE SelState(r))
           /\ ~Created(r)'
           /\ players' = players]_vars

\* The requester left the voice channels while the prompt was pending, chose
\* a bot, and the request ended Invalid.
C9_Witness ==
  \E r \in Reqs : /\ lost[r]
                  /\ outcome[r] = "Invalid"
                  /\ SelState(r) = "Chosen"
                  /\ voice[author[r]] = NoChan

\* ---- C10 ------------------------------------------------------------------
\* C10: the player created after a choice is created for the requester, on
\* the chosen bot, and is connected to the voice channel the request was made
\* for.
C10_HandoffKeepsContext ==
  \A r \in Reqs, b \in Bots :
     (SelState(r) = "Chosen" /\ CreatedOn(r, b)) =>
        /\ b = vbot[r]
        /\ ctxAuthor[r] = author[r]
        /\ players[b].last_channel \in {NoChan, reqChan[r]}

\* ---- C11 ------------------------------------------------------------------
\* C11: when the handoff to the chosen bot is answered AlreadyClaimed, no
\* player is created or replaced and the request is arbitrated again from
\* scratch: its candidates are evaluated on the current state, and it ends
\* there only when no candidate is left.
C11_LostRaceRearbitrated ==
  [][\A r \in Reqs :
        (/\ pc[r] = "create"
         /\ SelState(r) = "Chosen"
         /\ players[bot[r]] # NoPlayer
         /\ pc'[r] # "create") =>
           /\ players' = players
           /\ free_bots'[r] = FreeBots(ctxAuthor[r])
           /\ pc'[r] = "done" => free_bots'[r] = <<>>]_vars

\* ---- C12 ------------------------------------------------------------------
\* C12 (as stated): a request that found the guild already claimed and a
\* request whose prompt ended TimedOut, Cancelled or Invalid ended with a
\* returned outcome, never with an exception.
C12_ContentionNeverRaises ==
  \A r \in Reqs :
     outcome[r] \in {"AlreadyInitiated", "AlreadyClaimed",
                     "TimedOut", "Cancelled", "Invalid"} => ~raised[r]

\* C12 (amended): a request resumed from a prompt that timed out, was
\* cancelled, or was resolved by a choice while the requester is in no voice
\* channel ends by a return with the outcome TimedOut, Cancelled or Invalid;
\* a request received by a bot that already holds a player ends with an
\* exception raised to the command layer.
C12_SelectionEndsByReturn ==
  /\ [](\A r \in Reqs :
          /\ outcome[r] \in {"TimedOut", "Cancelled", "Invalid"} => ~raised[r]
          /\ outcome[r] = "AlreadyInitiated" => raised[r])
  /\ [][\A r \in Reqs :
          (/\ pc[r] = "wait"
           /\ pc'[r] # "wait"
           /\ SelState(r) = "Chosen" => voice[vinter[r]] = NoChan) =>
             /\ pc'[r] = "done"
             /\ ~raised'[r]
             /\ outcome'[r] = (IF SelState(r) = "Chosen" THEN "Invalid"
                               ELSE SelState(r))]_vars

\* One request ended Invalid by a return and another, received by a bot that
\* holds a player, ended with the exception of line 616.
C12_Witness ==
  \E r, q \in Reqs : /\ outcome[r] = "Invalid" /\ ~raised[r]
                     /\ outcome[q] = "AlreadyInitiated" /\ raised[q]

\* ---- C13 ------------------------------------------------------------------
\* The bots of s are in the order of the pool, each at most once.
InPoolOrder(s) == \A i, j \in 1..Len(s) : i < j => s[i] < s[j]

\* No request has created a player and nothing changed in the guild: the
\* pool, the players and the voice states are those of the initial state.
PoolUntouched == env = 0 /\ \A b \in Bots : players[b].by \in {-1, 0}

C14_CandidatesReadyAndObserving ==
  [][\A r \in Reqs :
        (~evaluated[r] /\ evaluated'[r]) =>
           /\ \A b \in Range(free_bots'[r]) : bot_ready[b] /\ inGuild[b]
           /\ \A b \in Bots :
                (bot_ready[b] /\ inGuild[b] /\ players[b] = NoPlayer)
                   => b \in Range(free_bots'[r])]_vars

\* A request was evaluated on a pool with a bot in the guild that is not
\* ready: that bot is not a candidate, and a ready bot without player is.
C14_Witness ==
  \E r \in Reqs, b, c \in Bots :
     /\ evaluated[r] /\ env = 0
     /\ inGuild[b] /\ ~bot_ready[b] /\ b \notin Range(free_bots[r])
     /\ bot_ready[c] /\ inGuild[c] /\ players[c] = NoPlayer
     /\ c \in Range(free_bots[r])

\* ---- C15 ------------------------------------------------------------------
\* What C15 says of the step in which request r of member u is arbitrated:
\* a ready bot of the guild whose player is connected to a channel is in the
\* list exactly when u is in that channel; and when some ready bot a of the
\* guild holds no player and some other ready bot b holds a player in the
\* channel u is in, a prompt is opened and its list has a and b in pool order.
HolderRule(r, u) ==
  /\ \A b \in Bots :
       (bot_ready[b] /\ inGuild[b] /\ players[b].last_channel # NoChan) =>
          (b \in Range(free_bots'[r]) <=> voice[u] = players[b].last_channel)
  /\ \A a, b \in Bots :
       (/\ a # b
        /\ bot_ready[a] /\ inGuild[a] /\ players[a] = NoPlayer
        /\ bot_ready[b] /\ inGuild[b] /\ players[b].last_channel # NoChan
        /\ voice[u] = players[b].last_channel) =>
          /\ pc'[r] = "wait"
          /\ {a, b} \subseteq Range(free_bots'[r])
          /\ InPoolOrder(free_bots'[r])

\* C15 (as stated): the rule holds of every request that passed the command
\* checks, whichever bot received it.
C15_HolderEligibleIffMember ==
  [][\A r \in Reqs :
        (/\ pc[r] = "idle" /\ pc'[r] # "idle"
         /\ outcome'[r] \notin {"NoVoice", "OnCooldown"}) =>
           \E u \in Users : u = author'[r] /\ HolderRule(r, u)]_vars

\* C15 (amended): the rule holds of every request received by a bot that
\* holds no player and is not in the requester's voice channel, which are the
\* requests whose candidates are evaluated.
C15_HolderEligibleWhenEvaluated ==
  [][\A r \in Reqs :
        (~evaluated[r] /\ evaluated'[r]) =>
           \E u \in Users : u = author'[r] /\ HolderRule(r, u)]_vars

\* Bot a holds no player, bot b holds one in the requester's channel, and the
\* request waits on a prompt that offers both.
C15_Witness ==
  \E r \in Reqs, a, b \in Bots :
     /\ evaluated[r] /\ PoolUntouched /\ pc[r] = "wait"
     /\ players[a] = NoPlayer
     /\ players[b].by = 0 /\ voice[author[r]] = players[b].last_channel
     /\ {a, b} \subseteq Range(free_bots[r])

\* ---- C16 ------------------------------------------------------------------
\* C16: when the handler is resumed from a prompt resolved by a choice and
\* the chosen bot is no longer free for the requester (not ready, not in the
\* guild, or holding a player in a channel the requester is not in), the
\* request ends Invalid and the players are left as they are.  (Stated of
\* the resumptions in which the voice channel can be joined and a node is
\* available.)
C16_ChosenRevalidated ==
  [][\A r \in Reqs :
        (/\ pc[r] = "wait"
         /\ SelState(r) = "Chosen"
         /\ pc'[r] # "wait"
         /\ outcome'[r] # "CannotStart"
         /\ ~IsFree(vbot[r], author[r])) =>
           /\ pc'[r] = "done"
           /\ outcome'[r] = "Invalid"
           /\ players' = players]_vars

\* ---- C17 ------------------------------------------------------------------
\* C17: every request that was received eventually ends with an outcome.
C17_EveryRequestEnds ==
  \A r \in Reqs : (pc[r] # "idle") ~> (pc[r] = "done")

\* ---- C18 ------------------------------------------------------------------
\* C18: no two requests of the same member have a pending prompt in the guild
\* at the same time, also when different bots of the pool received them.
C18_OnePendingPerRequester ==
  \A r, q \in Reqs :
     (/\ r # q
      /\ author[r] = author[q]
      /\ rcv[r] # rcv[q]
      /\ pc[r] = "wait" /\ pc[q] = "wait") =>
        ~(SelState(r) = "Pending" /\ SelState(q) = "Pending")

\* ---- C19 ------------------------------------------------------------------
\* C19: when the claim of a request that had no prompt is answered
\* AlreadyClaimed, the candidates are evaluated once more on the current
\* state and the request goes on with them: it ends there only when no
\* candidate is left, opens a prompt when several are, and claims again
\* otherwise.  (Stated of the races lost to a request that another bot of the
\* pool received, which the cooldown of the receiving bot cannot prevent.)
C19_LostRaceRetriedOnce ==
  [][\A r \in Reqs :
        (/\ pc[r] = "create"
         /\ SelState(r) = "NoSelection"
         /\ \E q \in Reqs : players[bot[r]].by = q /\ rcv[q] # rcv[r]
         /\ pc'[r] # "create") =>
           LET again == FreeBots(ctxAuthor[r])
           IN  /\ Len(again) = 0 => pc'[r] = "done"
               /\ Len(again) = 1 => pc'[r] = "connect"
               /\ Len(again) > 1 => (pc'[r] = "wait" /\ free_bots'[r] = again)]_vars

\* ---- C20 ------------------------------------------------------------------
\* C20: the time left to the deadline of a prompt is set to the timeout when
\* the prompt is created and afterwards only goes down, one by one, with the
\* ticks of the clock while the prompt is pending; the step that discards a
\* click of another member leaves it as it is; and the prompt becomes
\* TimedOut exactly at the tick that takes it to zero.
C20_DeadlineFixed ==
  /\ [](\A r \in Reqs :
          /\ SelState(r) = "Pending" => vleft[r] \in 1..timeout
          /\ SelState(r) = "TimedOut" => vleft[r] = 0)
  /\ [][\A r \in Reqs :
          /\ vleft'[r] # vleft[r] =>
                \/ pc[r] = "idle" /\ vleft'[r] = timeout
                \/ SelState(r) = "Pending" /\ vleft'[r] = vleft[r] - 1
          /\ (~ignored[r] /\ ignored'[r]) => vleft'[r] = vleft[r]
          /\ (SelState(r) = "Pending" /\ SelState(r)' = "TimedOut") =>
                (vleft[r] = 1 /\ vleft'[r] = 0)]_vars

\* A click of another member was discarded on a prompt that is still pending
\* and whose deadline is less than the whole timeout away.
C20_Witness ==
  \E r \in Reqs : /\ ignored[r]
                  /\ SelState(r) = "Pending"
                  /\ vleft[r] < timeout

\* ---- C21 ------------------------------------------------------------------
\* C21: a request received by a bot that holds a player of the guild ends in
\* the step that receives it, with an exception (the one of line 616 when the
\* command checks let it through), without evaluating candidates or opening
\* a prompt, and leaves the players of every bot as they are; and a request
\* that ended so never holds a player.
C21_ReceiverHoldingFailsAtOnce ==
  /\ [](\A r \in Reqs :
          outcome[r] = "AlreadyInitiated" =>
             /\ raised[r] /\ ~evaluated[r] /\ ~HasPrompt(r)
             /\ ~Created(r))
  /\ [][\A r \in Reqs :
          (pc[r] = "idle" /\ pc'[r] # "idle" /\ players[rcv'[r]] # NoPlayer) =>
             /\ pc'[r] = "done"
             /\ raised'[r]
             /\ outcome'[r] \in {"NoVoice", "OnCooldown", "AlreadyInitiated"}
             /\ voice[author'[r]] # NoChan =>
                   outcome'[r] \in {"OnCooldown", "AlreadyInitiated"}
             /\ ~evaluated'[r] /\ free_bots'[r] = <<>> /\ vleft'[r] = vleft[r]
             /\ players' = players]_vars

\* A request ended with the exception of line 616 while another bot of the
\* pool is ready, in the guild and without player.
C21_Witness ==
  \E r \in Reqs, b \in Bots :
     /\ outcome[r] = "AlreadyInitiated"
     /\ PoolUntouched
     /\ b # rcv[r]
     /\ IsFree(b, author[r]) /\ players[b] = NoPlayer

\* ---- C22 ------------------------------------------------------------------
\* Request r passed the command checks and the guard of lines 614-618 and
\* took the branch of line 625 that skips the candidate loop: the receiving
\* bot was in the requester's voice channel and held no player.
ReceiverPresent(r) ==
  /\ pc[r] # "idle"
  /\ ~evaluated[r]
  /\ outcome[r] \notin {"NoVoice", "OnCooldown", "AlreadyInitiated"}

\* C22 (as stated): a request received by a bot that is in the requester's
\* voice channel and holds no player evaluates no candidates, opens no prompt
\* and, when it has ended, has created a player on the receiving bot.
C22_ReceiverPresentCreates ==
  \A r \in Reqs :
     ReceiverPresent(r) =>
        /\ ~HasPrompt(r)
        /\ pc[r] = "done" => CreatedOn(r, rcv[r])

\* C22 (amended): such a request evaluates no candidates, opens no prompt and
\* goes straight to the creation of a player on the receiving bot, whatever
\* the other bots are; it holds no player on any other bot, and it ends
\* without one only when the channel cannot be joined or no node is available
\* (CannotStart) or when the claim is refused (AlreadyClaimed).
C22_ReceiverPresentGoesDirect ==
  /\ [](\A r \in Reqs :
          ReceiverPresent(r) =>
             /\ ~HasPrompt(r) /\ free_bots[r] = <<>> /\ bot[r] = rcv[r]
             /\ \A b \in Bots : CreatedOn(r, b) => b = rcv[r]
             /\ outcome[r] = "Started" => CreatedOn(r, rcv[r])
             /\ (pc[r] = "done" /\ ~Created(r)) =>
                   outcome[r] \in {"CannotStart", "AlreadyClaimed"})
  /\ [][\A r \in Reqs :
          (/\ pc[r] = "idle" /\ pc'[r] # "idle"
           /\ outcome'[r] # "OnCooldown"
           /\ voice[author'[r]] # NoChan
           /\ players[rcv'[r]] = NoPlayer
           /\ botVoice[rcv'[r]] = voice[author'[r]]) =>
             /\ ~evaluated'[r] /\ free_bots'[r] = <<>>
             /\ bot'[r] = rcv'[r]
             /\ pc'[r] = "create" \/ outcome'[r] = "CannotStart"
             /\ players' = players]_vars

\* The receiving bot was in the requester's channel without player while the
\* other bot of the pool was free too, and the request created its player on
\* the receiving bot without a prompt.
C22_Witness ==
  \E r \in Reqs, b \in Bots :
     /\ ReceiverPresent(r)
     /\ outcome[r] = "Started"
     /\ CreatedOn(r, rcv[r])
     /\ b # rcv[r]
     /\ bot_ready[b] /\ inGuild[b] /\ players[b] = NoPlayer

\* ---- C23 ------------------------------------------------------------------
\* C23: a player a request created is on the bot that received the request,
\* unless the request's prompt was resolved by a choice: then it is on the
\* chosen bot, which is one of the bots the prompt offered.
C23_OtherInstanceOnlyByChoice ==
  \A r \in Reqs, b \in Bots :
     CreatedOn(r, b) =>
        /\ b # rcv[r] => /\ SelState(r) = "Chosen"
                         /\ vbot[r] = b
                         /\ b \in Range(free_bots[r])
        /\ SelState(r) # "Chosen" => b = rcv[r]
        /\ SelState(r) = "Chosen" => (b = vbot[r] /\ b \in Range(free_bots[r]))

\* A request created its player on a bot other than the one that received
\* it, after a choice; and another created its own on its receiving bot
\* without a prompt.
C23_Witness ==
  \E r, q \in Reqs, b \in Bots :
     /\ CreatedOn(r, b) /\ b # rcv[r] /\ SelState(r) = "Chosen"
     /\ CreatedOn(q, rcv[q]) /\ SelState(q) = "NoSelection"

====
